---- MODULE Spec2Model ----
(***************************************************************************)
(* Model of library/panos_match_rule.py: the two command builders          *)
(* create_security_test / create_nat_test and the orchestration routine    *)
(* main(), stepped statement group by statement group.                     *)
(*                                                                         *)
(* Python values: a string parameter is a TLA+ string; Python's None is    *)
(* the reserved text None below, which no parameter value of the model     *)
(* equals.  pandevice objects are records with a cls field.                *)
(***************************************************************************)
EXTENDS Naturals, Sequences, FiniteSets, TLC

\* Largest number of <entry> children under result/rules in a device response.
MaxEntries == 2

\* Python None (for string-valued slots).
None == "None"

\* Python None (for object-valued slots such as the result of Rulebase.find).
NoneObj == [cls |-> "NoneType", name |-> ""]

\* Truthiness of a string-or-None value, as tested by "if kwargs[...]:".
Truthy(v) == v # None /\ v # ""

----------------------------------------------------------------------------
(* Command builders *)

\* Faulty variant: the application clause is appended before the destination.
create_security_test_reordered(kwargs) ==
    LET s0 == "test security-policy-match"
        s1 == IF Truthy(kwargs.source_ip)
              THEN s0 \o " source \"" \o kwargs.source_ip \o "\"" ELSE s0
        s2 == IF Truthy(kwargs.source_user)
              THEN s1 \o " source-user \"" \o kwargs.source_user \o "\"" ELSE s1
        s3 == IF Truthy(kwargs.application)
              THEN s2 \o " application \"" \o kwargs.application \o "\"" ELSE s2
        s4 == IF Truthy(kwargs.destination_ip)
              THEN s3 \o " destination \"" \o kwargs.destination_ip \o "\"" ELSE s3
        s5 == IF Truthy(kwargs.destination_port)
              THEN s4 \o " destination-port \"" \o kwargs.destination_port \o "\"" ELSE s4
        s6 == IF Truthy(kwargs.protocol)
              THEN s5 \o " protocol \"" \o kwargs.protocol \o "\"" ELSE s5
        s7 == IF Truthy(kwargs.category)
              THEN s6 \o " category \"" \o kwargs.category \o "\"" ELSE s6
    IN  s7

create_security_test(kwargs) ==
    LET s0 == "test security-policy-match"
        s1 == IF Truthy(kwargs.source_ip)
              THEN s0 \o " source \"" \o kwargs.source_ip \o "\"" ELSE s0
        s2 == IF Truthy(kwargs.source_user)
              THEN s1 \o " source-user \"" \o kwargs.source_user \o "\"" ELSE s1
        s3 == IF Truthy(kwargs.destination_ip)
              THEN s2 \o " destination \"" \o kwargs.destination_ip \o "\"" ELSE s2
        s4 == IF Truthy(kwargs.application)
              THEN s3 \o " application \"" \o kwargs.application \o "\"" ELSE s3
        s5 == IF Truthy(kwargs.destination_port)
              THEN s4 \o " destination-port \"" \o kwargs.destination_port \o "\"" ELSE s4
        s6 == IF Truthy(kwargs.protocol)
              THEN s5 \o " protocol \"" \o kwargs.protocol \o "\"" ELSE s5
        s7 == IF Truthy(kwargs.category)
              THEN s6 \o " category \"" \o kwargs.category \o "\"" ELSE s6
    IN  s7

\* Faulty variant: tests "is not None", so an empty string yields a clause.
create_nat_test_none_only(kwargs) ==
    LET n0 == "test nat-policy-match"
        n1 == IF kwargs.source_zone # None
              THEN n0 \o " from \"" \o kwargs.source_zone \o "\"" ELSE n0
        n2 == IF kwargs.source_ip # None
              THEN n1 \o " source \"" \o kwargs.source_ip \o "\"" ELSE n1
        n3 == IF kwargs.source_port # None
              THEN n2 \o " source-port \"" \o kwargs.source_port \o "\"" ELSE n2
        n4 == IF kwargs.to_interface # None
              THEN n3 \o " to-interface \"" \o kwargs.to_interface \o "\"" ELSE n3
        n5 == IF kwargs.destination_zone # None
              THEN n4 \o " to \"" \o kwargs.destination_zone \o "\"" ELSE n4
        n6 == IF kwargs.destination_ip # None
              THEN n5 \o " destination \"" \o kwargs.destination_ip \o "\"" ELSE n5
        n7 == IF kwargs.destination_port # None
              THEN n6 \o " destination-port \"" \o kwargs.destination_port \o "\"" ELSE n6
        n8 == IF kwargs.protocol # None
              THEN n7 \o " protocol \"" \o kwargs.protocol \o "\"" ELSE n7
    IN  n8

create_nat_test(kwargs) ==
    LET n0 == "test nat-policy-match"
        n1 == IF Truthy(kwargs.source_zone)
              THEN n0 \o " from \"" \o kwargs.source_zone \o "\"" ELSE n0
        n2 == IF Truthy(kwargs.source_ip)
              THEN n1 \o " source \"" \o kwargs.source_ip \o "\"" ELSE n1
        n3 == IF Truthy(kwargs.source_port)
              THEN n2 \o " source-port \"" \o kwargs.source_port \o "\"" ELSE n2
        n4 == IF Truthy(kwargs.to_interface)
              THEN n3 \o " to-interface \"" \o kwargs.to_interface \o "\"" ELSE n3
        n5 == IF Truthy(kwargs.destination_zone)
              THEN n4 \o " to \"" \o kwargs.destination_zone \o "\"" ELSE n4
        n6 == IF Truthy(kwargs.destination_ip)
              THEN n5 \o " destination \"" \o kwargs.destination_ip \o "\"" ELSE n5
        n7 == IF Truthy(kwargs.destination_port)
              THEN n6 \o " destination-port \"" \o kwargs.destination_port \o "\"" ELSE n6
        n8 == IF Truthy(kwargs.protocol)
              THEN n7 \o " protocol \"" \o kwargs.protocol \o "\"" ELSE n7
    IN  n8

----------------------------------------------------------------------------
(* State of one invocation of main() *)

VARIABLES
    params,       \* module.params, the caller's arguments after defaults
    HAS_LIB,      \* whether the pan/pandevice/xmltodict imports succeeded
    pc,           \* position of main()
    device,       \* class of the handle returned by create_from_device
    rulebase,     \* children of the one Rulebase object that both
                  \* sec_rule_base and nat_rule_base name
    test_string,  \* the command built for device.op
    response,     \* the parsed reply of device.op: the texts of the <entry>
                  \* children of result/rules; status "unbound" before it
    exc,          \* message of the PanXapiError main() caught, if any
    rule_name,    \* text of the first entry
    rule_match,   \* result of Rulebase.find
    outcome,      \* how the process ended: exit_json, fail_json or a traceback
    calls         \* how many times each library call was made so far

vars == <<params, HAS_LIB, pc, device, rulebase, test_string, response, exc,
          rule_name, rule_match, outcome, calls>>


\* argument_spec: the parameters declared required=True.
required == {"ip_address", "rule_type", "source_ip", "destination_ip",
             "destination_port", "protocol"}

\* argument_spec: choices of rule_type.
rule_type_choices == {"security", "nat"}

\* argument_spec defaults of username and vsys_id.
default_username == "admin"
default_vsys_id == "vsys1"

\* Names a rule can have on the device, and texts an <entry> can carry.
RuleNames == {"rule1", "rule2"}

\* Messages a PanXapiError raised by device.op can carry.
XapiMessages == {"malformed command", "device fault"}

\* What the caller can pass to one invocation (None: not passed).
ParamSpace ==
    [ip_address       : {None, "fw1"},
     password         : {None, "secret"},
     username         : {default_username},
     api_key          : {None, "key"},
     vsys_id          : {default_vsys_id},
     rule_type        : {None, "security", "nat", "pbf"},
     source_zone      : {None, "Prod-DMZ"},
     source_ip        : {None, "10.0.0.0"},
     source_user      : {None, "jsmith"},
     source_port      : {None, "1024"},
     to_interface     : {None, "ethernet1/2"},
     destination_zone : {None, "Internet"},
     destination_ip   : {None, "8.8.8.8"},
     destination_port : {None, "53"},
     category         : {None, "news"},
     application      : {None, "dns"},
     protocol         : {None, "17"}]

\* The name response before device.op has returned.
Unbound == [status |-> "unbound", rules |-> <<>>]

Running == [kind |-> "running", msg |-> "", stdout_lines |-> <<>>]

NoCalls == [create_from_device |-> 0, refreshall |-> 0, op |-> 0, find |-> 0]

\* module.exit_json(**kw): report success and leave the process.
exit_json(msg, stdout_lines) ==
    /\ outcome' = [kind |-> "exit_json", msg |-> msg, stdout_lines |-> stdout_lines]
    /\ pc' = "Exited"

\* module.fail_json(**kw): report failure and leave the process.
fail_json(msg) ==
    /\ outcome' = [kind |-> "fail_json", msg |-> msg, stdout_lines |-> <<>>]
    /\ pc' = "Exited"

\* An exception nothing in main() catches: the process dies with a traceback,
\* neither exit_json nor fail_json having been called.
uncaught(error) ==
    /\ outcome' = [kind |-> "exception", msg |-> error, stdout_lines |-> <<>>]
    /\ pc' = "Exited"

Init ==
    /\ params \in ParamSpace
    /\ HAS_LIB \in BOOLEAN
    /\ pc = "Validating"
    /\ device = None
    /\ rulebase = {}
    /\ test_string = None
    /\ response = Unbound
    /\ exc = None
    /\ rule_name = None
    /\ rule_match = NoneObj
    /\ outcome = Running
    /\ calls = NoCalls

\* Faulty variant: the required_one_of argument left out.
required_one_of_dropped(p) == TRUE


\* required_one_of=[['api_key', 'password']]
required_one_of(p) == p.api_key # None \/ p.password # None

\* AnsibleModule(argument_spec=..., required_one_of=...) and the HAS_LIB test.
Validate ==
    /\ pc = "Validating"
    /\ IF ~required_one_of(params)
         THEN fail_json("one of the following is required: api_key,password")
       ELSE IF \E k \in required : params[k] = None
         THEN fail_json("missing required arguments")
       ELSE IF params.rule_type \notin rule_type_choices
         THEN fail_json("value of rule_type must be one of: security,nat")
       ELSE IF ~HAS_LIB
         THEN fail_json("Missing required libraries.")
       ELSE pc' = "Connecting" /\ UNCHANGED outcome
    /\ UNCHANGED <<params, HAS_LIB, device, rulebase, test_string, response,
                   exc, rule_name, rule_match, calls>>

\* device = base.PanDevice.create_from_device(...): a Firewall or a Panorama
\* handle, or an error of the connection that main() does not catch.
Connect ==
    /\ pc = "Connecting"
    /\ calls' = [calls EXCEPT !.create_from_device = @ + 1]
    /\ \/ \E cls \in {"Firewall", "Panorama"} :
             /\ device' = cls
             /\ pc' = "TargetGuard"
             /\ UNCHANGED outcome
       \/ /\ uncaught("PanDeviceError")
          /\ UNCHANGED device
    /\ UNCHANGED <<params, HAS_LIB, rulebase, test_string, response,
                   exc, rule_name, rule_match>>

\* Faulty variant: no Panorama test.
TargetGuard_skipped ==
    /\ pc = "TargetGuard"
    /\ pc' = "Fetching"
    /\ UNCHANGED <<params, HAS_LIB, device, rulebase, test_string, response,
                   exc, rule_name, rule_match, outcome, calls>>

\* if isinstance(device, panorama.Panorama): module.fail_json(...)
TargetGuard ==
    /\ pc = "TargetGuard"
    /\ IF device = "Panorama"
         THEN fail_json("Panorama is not supported.")
         ELSE pc' = "Fetching" /\ UNCHANGED outcome
    /\ UNCHANGED <<params, HAS_LIB, device, rulebase, test_string, response,
                   exc, rule_name, rule_match, calls>>

\* The rule objects refreshall(cls) builds from the device's configuration.
RuleObjects(cls, names) == {[cls |-> cls, name |-> n] : n \in names}

\* sec_rule_base = nat_rule_base = policies.Rulebase(); both refreshall calls
\* fill that one object: each replaces the children of its own class.
Fetch ==
    /\ pc = "Fetching"
    /\ \/ \E sec \in SUBSET RuleNames, nat \in SUBSET RuleNames :
             LET afterSec == {r \in rulebase : r.cls # "SecurityRule"}
                                \cup RuleObjects("SecurityRule", sec)
                 afterNat == {r \in afterSec : r.cls # "NatRule"}
                                \cup RuleObjects("NatRule", nat)
             IN  /\ rulebase' = afterNat
                 /\ calls' = [calls EXCEPT !.refreshall = @ + 2]
                 /\ pc' = "Building"
                 /\ UNCHANGED outcome
       \/ \E n \in 1..2 :
             /\ calls' = [calls EXCEPT !.refreshall = @ + n]
             /\ uncaught("PanDeviceError")
             /\ UNCHANGED rulebase
    /\ UNCHANGED <<params, HAS_LIB, device, test_string, response,
                   exc, rule_name, rule_match>>

\* if rule_type == 'security': ... elif rule_type == 'nat': ...
Build ==
    /\ pc = "Building"
    /\ \/ /\ params.rule_type = "security"
          /\ test_string' = create_security_test(params)
          /\ pc' = "Invoking"
          /\ UNCHANGED outcome
       \/ /\ params.rule_type = "nat"
          /\ test_string' = create_nat_test(params)
          /\ pc' = "Invoking"
          /\ UNCHANGED outcome
    /\ UNCHANGED <<params, HAS_LIB, device, rulebase, response, exc,
                   rule_name, rule_match, calls>>

\* The replies the device can give to a policy-match test: a result/rules
\* node with 0..MaxEntries <entry> children, each carrying a rule name, which
\* need not be the name of a fetched rule.
Responses ==
    {[status |-> "success", rules |-> e] :
        e \in UNION {[1..n -> RuleNames] : n \in 0..MaxEntries}}

\* Faulty variant: a PanXapiError is swallowed and the command sent again.
Invoke_retrying ==
    /\ pc = "Invoking"
    /\ calls.op < 2
    /\ calls' = [calls EXCEPT !.op = @ + 1]
    /\ \/ \E r \in Responses :
             /\ response' = r
             /\ pc' = "Interpreting"
             /\ UNCHANGED <<outcome, exc>>
       \/ \E m \in XapiMessages :
             /\ exc' = m
             /\ UNCHANGED <<pc, outcome, response>>
    /\ UNCHANGED <<params, HAS_LIB, device, rulebase, test_string,
                   rule_name, rule_match>>

\* try: response = device.op(cmd=test_string, vsys=vsys_id)
\* except PanXapiError: exc = get_exception(); module.fail_json(msg=exc.message)
Invoke ==
    /\ pc = "Invoking"
    /\ calls' = [calls EXCEPT !.op = @ + 1]
    /\ \/ \E r \in Responses :
             /\ response' = r
             /\ pc' = "Interpreting"
             /\ UNCHANGED <<outcome, exc>>
       \/ \E m \in XapiMessages :
             /\ exc' = m
             /\ fail_json(exc')
             /\ UNCHANGED response
    /\ UNCHANGED <<params, HAS_LIB, device, rulebase, test_string,
                   rule_name, rule_match>>

\* Faulty variant: the elif for nat is missing.
Interpret_nat_fails ==
    /\ pc = "Interpreting"
    /\ IF Len(response.rules) = 1
         THEN /\ rule_name' = response.rules[1]
              /\ pc' = "Resolving"
              /\ UNCHANGED outcome
         ELSE /\ fail_json("Rule match failed. Please check playbook syntax.")
              /\ UNCHANGED rule_name
    /\ UNCHANGED <<params, HAS_LIB, device, rulebase, test_string, response,
                   exc, rule_match, calls>>

\* Faulty variant: the final else is missing, every rule_type exits.
Interpret_always_exits ==
    /\ pc = "Interpreting"
    /\ IF Len(response.rules) = 1
         THEN /\ rule_name' = response.rules[1]
              /\ pc' = "Resolving"
              /\ UNCHANGED outcome
         ELSE /\ exit_json("No matching NAT rule.", <<>>)
              /\ UNCHANGED rule_name
    /\ UNCHANGED <<params, HAS_LIB, device, rulebase, test_string, response,
                   exc, rule_match, calls>>

\* if response.find('result/rules').__len__() == 1: rule_name = ...entry.text
\* elif rule_type == 'nat': exit_json(...)   else: fail_json(...)
Interpret ==
    /\ pc = "Interpreting"
    /\ IF Len(response.rules) = 1
         THEN /\ rule_name' = response.rules[1]
              /\ pc' = "Resolving"
              /\ UNCHANGED outcome
       ELSE IF params.rule_type = "nat"
         THEN /\ exit_json("No matching NAT rule.", <<>>)
              /\ UNCHANGED rule_name
         ELSE /\ fail_json("Rule match failed. Please check playbook syntax.")
              /\ UNCHANGED rule_name
    /\ UNCHANGED <<params, HAS_LIB, device, rulebase, test_string, response,
                   exc, rule_match, calls>>

\* Rulebase.find(name, class_type): the child of that class with that name,
\* or None.
find(children, name, class_type) ==
    IF \E r \in children : r.name = name /\ r.cls = class_type
    THEN CHOOSE r \in children : r.name = name /\ r.cls = class_type
    ELSE NoneObj

\* if rule_type == 'security': rule_match = sec_rule_base.find(...)
\* elif rule_type == 'nat':    rule_match = nat_rule_base.find(...)
Resolve ==
    /\ pc = "Resolving"
    /\ \/ /\ params.rule_type = "security"
          /\ rule_match' = find(rulebase, rule_name, "SecurityRule")
       \/ /\ params.rule_type = "nat"
          /\ rule_match' = find(rulebase, rule_name, "NatRule")
    /\ calls' = [calls EXCEPT !.find = @ + 1]
    /\ pc' = "Reporting"
    /\ UNCHANGED <<params, HAS_LIB, device, rulebase, test_string, response,
                   exc, rule_name, outcome>>

\* json.dumps(xmltodict.parse(rule.element_str()), indent=2): the text of the
\* rule's definition, which names its kind and carries its name.
json_dumps(rule) ==
    <<IF rule.cls = "SecurityRule" THEN "security" ELSE "nat", "rules",
      "entry", "@name", rule.name>>

\* module.exit_json(stdout_lines=json.dumps(...rule_match.element_str()...),
\*                  msg='Rule matched')
Report ==
    /\ pc = "Reporting"
    /\ IF rule_match = NoneObj
         THEN uncaught("AttributeError")
         ELSE exit_json("Rule matched", json_dumps(rule_match))
    /\ UNCHANGED <<params, HAS_LIB, device, rulebase, test_string, response,
                   exc, rule_name, rule_match, calls>>

Next ==
    \/ Validate
    \/ Connect
    \/ TargetGuard
    \/ Fetch
    \/ Build
    \/ Invoke
    \/ Interpret
    \/ Resolve
    \/ Report

Spec == Init /\ [][Next]_vars


----------------------------------------------------------------------------
(* The command builders alone, called on every combination of absent (None), *)
(* empty and non-empty fields.  The keywords a builder does not take are     *)
(* None.                                                                     *)

Absent == {None, ""}

SecurityKwargs ==
    [ip_address       : {"fw1"},
     password         : {"secret"},
     username         : {default_username},
     api_key          : {None},
     vsys_id          : {default_vsys_id},
     rule_type        : {"security"},
     source_zone      : {None},
     source_ip        : Absent \cup {"10.0.0.0"},
     source_user      : Absent \cup {"jsmith"},
     source_port      : {None},
     to_interface     : {None},
     destination_zone : {None},
     destination_ip   : Absent \cup {"8.8.8.8"},
     destination_port : Absent \cup {"53"},
     category         : Absent \cup {"news"},
     application      : Absent \cup {"dns"},
     protocol         : Absent \cup {"17"}]

NatKwargs ==
    [ip_address       : {"fw1"},
     password         : {"secret"},
     username         : {default_username},
     api_key          : {None},
     vsys_id          : {default_vsys_id},
     rule_type        : {"nat"},
     source_zone      : Absent \cup {"Prod-DMZ"},
     source_ip        : Absent \cup {"10.0.0.0"},
     source_user      : {None},
     source_port      : Absent \cup {"1024"},
     to_interface     : Absent \cup {"ethernet1/2"},
     destination_zone : Absent \cup {"Internet"},
     destination_ip   : Absent \cup {"8.8.8.8"},
     destination_port : Absent \cup {"53"},
     category         : {None},
     application      : {None},
     protocol         : Absent \cup {"17"}]

InitBuilders ==
    /\ params \in SecurityKwargs \cup NatKwargs
    /\ HAS_LIB = TRUE
    /\ pc = "Builder"
    /\ device = None
    /\ rulebase = {}
    /\ test_string = None
    /\ response = Unbound
    /\ exc = None
    /\ rule_name = None
    /\ rule_match = NoneObj
    /\ outcome = Running
    /\ calls = NoCalls

\* One call of create_security_test(**kwargs).
CallSecurityBuilder ==
    /\ pc = "Builder"
    /\ params.rule_type = "security"
    /\ test_string' = create_security_test(params)
    /\ pc' = "Built"
    /\ UNCHANGED <<params, HAS_LIB, device, rulebase, response, exc,
                   rule_name, rule_match, outcome, calls>>

\* One call of create_nat_test(**kwargs).
CallNatBuilder ==
    /\ pc = "Builder"
    /\ params.rule_type = "nat"
    /\ test_string' = create_nat_test(params)
    /\ pc' = "Built"
    /\ UNCHANGED <<params, HAS_LIB, device, rulebase, response, exc,
                   rule_name, rule_match, outcome, calls>>

NextBuilders ==
    \/ CallSecurityBuilder
    \/ CallNatBuilder

SpecBuilders == InitBuilders /\ [][NextBuilders]_vars

----------------------------------------------------------------------------
(* Properties *)

\* The text one field contributes to a command: nothing when the field is
\* absent or empty, else a blank, the clause name and the quoted value.
ClauseText(name, value) ==
    IF value = None \/ value = "" THEN ""
    ELSE " " \o name \o " " \o "\"" \o value \o "\""

RECURSIVE ClausesText(_)
ClausesText(clauses) ==
    IF clauses = <<>> THEN ""
    ELSE ClauseText(Head(clauses)[1], Head(clauses)[2]) \o ClausesText(Tail(clauses))

\* C1: create_security_test returns 'test security-policy-match' followed by
\* one clause ' <name> "<value>"' per non-empty field and none for an empty
\* field, in the order source, source-user, destination, application,
\* destination-port, protocol, category; with every optional field empty and
\* every required one given it is the four-clause command of the spec.
C1_SecurityCommand ==
    (pc = "Built" /\ params.rule_type = "security") =>
       /\ test_string = "test security-policy-match" \o
             ClausesText(<< <<"source", params.source_ip>>,
                            <<"source-user", params.source_user>>,
                            <<"destination", params.destination_ip>>,
                            <<"application", params.application>>,
                            <<"destination-port", params.destination_port>>,
                            <<"protocol", params.protocol>>,
                            <<"category", params.category>> >>)
       /\ ( /\ params.source_user \in Absent
            /\ params.application \in Absent
            /\ params.category \in Absent
            /\ params.source_ip = "10.0.0.0"
            /\ params.destination_ip = "8.8.8.8"
            /\ params.destination_port = "53"
            /\ params.protocol = "17" )
          => test_string = "test security-policy-match source \"10.0.0.0\" destination \"8.8.8.8\" destination-port \"53\" protocol \"17\""

\* The first example of EXAMPLES has been built: application given, user and
\* category not.
C1_Witness ==
    /\ pc = "Built"
    /\ params.rule_type = "security"
    /\ params.source_user = None
    /\ params.category = ""
    /\ test_string = "test security-policy-match source \"10.0.0.0\" destination \"8.8.8.8\" application \"dns\" destination-port \"53\" protocol \"17\""

\* C2: create_nat_test returns 'test nat-policy-match' followed by only the
\* non-empty clauses, each ' <name> "<value>"', in the order from, source,
\* source-port, to-interface, to, destination, destination-port, protocol.
C2_NatCommand ==
    (pc = "Built" /\ params.rule_type = "nat") =>
       test_string = "test nat-policy-match" \o
             ClausesText(<< <<"from", params.source_zone>>,
                            <<"source", params.source_ip>>,
                            <<"source-port", params.source_port>>,
                            <<"to-interface", params.to_interface>>,
                            <<"to", params.destination_zone>>,
                            <<"destination", params.destination_ip>>,
                            <<"destination-port", params.destination_port>>,
                            <<"protocol", params.protocol>> >>)

\* A NAT command has been built from a request with an empty destination port
\* and no source port.
C2_Witness ==
    /\ pc = "Built"
    /\ params.rule_type = "nat"
    /\ params.destination_port = ""
    /\ params.source_port = None
    /\ test_string = "test nat-policy-match from \"Prod-DMZ\" source \"10.0.0.0\" to-interface \"ethernet1/2\" to \"Internet\" destination \"8.8.8.8\" protocol \"17\""


\* The reply of device.op has arrived and the process has ended.
EndedAfterReply == pc = "Exited" /\ response.status = "success"

\* The class of rule that rule_type selects.
SelectedClass == IF params.rule_type = "security" THEN "SecurityRule" ELSE "NatRule"

\* C3: when the response holds exactly one entry under result/rules, the
\* invocation ends in the success 'Rule matched' whose payload is the
\* definition of the fetched rule of that name and of the kind rule_type
\* selects.
C3_OneEntryReportsRule ==
    (EndedAfterReply /\ Len(response.rules) = 1) =>
       /\ outcome.kind = "exit_json"
       /\ outcome.msg = "Rule matched"
       /\ \E r \in rulebase :
             /\ r.name = response.rules[1]
             /\ r.cls = SelectedClass
             /\ outcome.stdout_lines = json_dumps(r)

\* C4: a nat request whose response holds zero entries ends in a success
\* carrying the no-matching-rule message and no rule payload, without any
\* lookup in the fetched rules.
C4_NatNoMatchSucceeds ==
    (EndedAfterReply /\ params.rule_type = "nat" /\ Len(response.rules) = 0) =>
       /\ outcome.kind = "exit_json"
       /\ outcome.msg = "No matching NAT rule."
       /\ outcome.stdout_lines = <<>>
       /\ calls.find = 0
       /\ rule_match = NoneObj

\* A nat invocation has ended after an empty response, rules having been
\* fetched that a lookup could have found.
C4_Witness ==
    /\ EndedAfterReply
    /\ params.rule_type = "nat"
    /\ response.rules = <<>>
    /\ rulebase # {}
    /\ outcome.kind = "exit_json"

\* C5: a security request whose response holds zero entries ends in failure;
\* it never ends in success and never emits a rule payload.
C5_SecurityNoMatchFails ==
    (response.status = "success" /\ params.rule_type = "security"
        /\ Len(response.rules) = 0) =>
       /\ outcome.kind # "exit_json"
       /\ outcome.stdout_lines = <<>>
       /\ pc = "Exited" => outcome.kind = "fail_json"

\* A security invocation has ended after an empty response.
C5_Witness ==
    /\ EndedAfterReply
    /\ params.rule_type = "security"
    /\ response.rules = <<>>
    /\ outcome.msg = "Rule match failed. Please check playbook syntax."

\* A required parameter is missing, or neither password nor api_key is given.
Misconfigured ==
    \/ params.ip_address = None
    \/ params.rule_type = None
    \/ params.source_ip = None
    \/ params.destination_ip = None
    \/ params.destination_port = None
    \/ params.protocol = None
    \/ (params.password = None /\ params.api_key = None)

C7_PanoramaRejected ==
    device = "Panorama" =>
       /\ calls.refreshall = 0
       /\ calls.op = 0
       /\ pc \in {"TargetGuard", "Exited"}
       /\ pc = "Exited" =>
             /\ outcome.kind = "fail_json"
             /\ outcome.msg = "Panorama is not supported."

\* A nat invocation against a Panorama has ended.
C7_Witness ==
    /\ pc = "Exited"
    /\ device = "Panorama"
    /\ params.rule_type = "nat"
    /\ outcome.kind = "fail_json"

\* C8: when device.op fails with a remote error, the invocation ends in a
\* failure carrying the error's message; the command is submitted at most
\* once, and no interpretation, lookup or success report follows.
C8_RemoteErrorIsFinal ==
    /\ calls.op <= 1
    /\ exc # None =>
          /\ pc = "Exited"
          /\ outcome.kind = "fail_json"
          /\ outcome.msg = exc
          /\ outcome.stdout_lines = <<>>
          /\ response = Unbound
          /\ rule_name = None
          /\ calls.find = 0

\* device.op has raised "device fault" and the invocation has ended.
C8_Witness ==
    /\ pc = "Exited"
    /\ calls.op = 1
    /\ exc = "device fault"
    /\ outcome.msg = "device fault"

\* The stage of the spec's state machine that a position of main() is in.
Stage(p) ==
    CASE p = "Validating"                    -> 1
      [] p \in {"Connecting", "TargetGuard"} -> 2
      [] p = "Fetching"                      -> 3
      [] p \in {"Building", "Invoking"}      -> 4
      [] p \in {"Interpreting", "Resolving"} -> 5
      [] p = "Reporting"                     -> 6
      [] OTHER                               -> 7

\* C9: an invocation passes through Validating, Connecting, Fetching,
\* Invoking, Interpreting, Reporting in that order only, never going back,
\* and whenever it ends it has reported exactly one outcome, a success or a
\* failure, also when the returned rule name is not among the fetched rules;
\* after an outcome nothing more runs.
C9_LinearAndAlwaysReported ==
    [][ /\ Stage(pc') >= Stage(pc)
        /\ outcome.kind = "running"
        /\ pc' = "Exited" => outcome'.kind \in {"exit_json", "fail_json"}
      ]_vars

\* C10: the success 'No matching NAT rule.' is produced only for a nat
\* request whose response holds zero entries, never for a response with one
\* entry or more.
C10_NoMatchOnlyForZeroEntries ==
    (outcome.kind = "exit_json" /\ outcome.msg = "No matching NAT rule.") =>
       /\ params.rule_type = "nat"
       /\ response.status = "success"
       /\ Len(response.rules) = 0

====
